---- MODULE Spec2Model ----
(***************************************************************************)
(* The MIN container codec of dedupe_files.py (encoder) and               *)
(* decompress_min.py (decoder).                                           *)
(*                                                                         *)
(* Representation.  A Python str is a sequence of one-character strings   *)
(* over Alphabet (ASCII, so its UTF-8 length is its Len).  A byte buffer  *)
(* is a sequence of 0..255.  An integer that is written as a varint is a  *)
(* pair of limbs [hi, lo] with value hi * 2^28 + lo, because the varint   *)
(* cap 2^35 exceeds the integers of the model checker.  A float is the    *)
(* integer number of halves it equals (every float of the model is a      *)
(* multiple of 0.5 below 2^20, hence exact in IEEE-754 binary64).         *)
(***************************************************************************)
EXTENDS Integers, Sequences, FiniteSets, TLC

(***************************************************************************)
(* Bounds of the model.                                                    *)
(***************************************************************************)
MaxCells == 4
MaxLines == 3
MaxTail == 1

(***************************************************************************)
(* Generic helpers.                                                        *)
(***************************************************************************)
Abs(n) == IF n < 0 THEN -n ELSE n

Min2(a, b) == IF a < b THEN a ELSE b

RECURSIVE Pow2(_)
Pow2(k) == IF k = 0 THEN 1 ELSE 2 * Pow2(k - 1)

RECURSIVE Pow10(_)
Pow10(k) == IF k = 0 THEN 1 ELSE 10 * Pow10(k - 1)

Range(s) == {s[i] : i \in 1..Len(s)}

RECURSIVE Flatten(_)
Flatten(ss) == IF ss = <<>> THEN <<>> ELSE Head(ss) \o Flatten(Tail(ss))

RECURSIVE Replicate(_, _)
Replicate(k, x) == IF k <= 0 THEN <<>> ELSE <<x>> \o Replicate(k - 1, x)

SeqsUpTo(S, n) == UNION {[1..k -> S] : k \in 0..n}

(***************************************************************************)
(* Characters and their UTF-8 (ASCII) codes: str.encode('utf-8') and       *)
(* bytes.decode('utf-8').                                                  *)
(***************************************************************************)
Alphabet == <<" ", "+", "-", ".", "0", "1", "2", "3", "4", "5", "6", "7", "8", "9", "a", "b", "x", "y">>

AlphabetCodes == <<32, 43, 45, 46, 48, 49, 50, 51, 52, 53, 54, 55, 56, 57, 97, 98, 120, 121>>

Ord(c) == AlphabetCodes[CHOOSE i \in 1..Len(Alphabet) : Alphabet[i] = c]

\* A byte below 0x80 that is not a code of Alphabet is some other ASCII
\* character, written "?".
Chr(b) == IF \E i \in 1..Len(Alphabet) : AlphabetCodes[i] = b
          THEN Alphabet[CHOOSE i \in 1..Len(Alphabet) : AlphabetCodes[i] = b]
          ELSE "?"

Utf8Encode(s) == [i \in 1..Len(s) |-> Ord(s[i])]

\* bytes.decode('utf-8'): bytes 0xF5..0xFF never occur in UTF-8 and raise
\* UnicodeDecodeError; multi-byte sequences are outside the model's alphabet
\* and are taken as undecodable too.
Utf8Decodable(bs) == \A i \in 1..Len(bs) : bs[i] < 128

Utf8Decode(bs) == [i \in 1..Len(bs) |-> Chr(bs[i])]

(***************************************************************************)
(* Two-limb integers for varints.                                          *)
(***************************************************************************)
Limb == Pow2(28)

Big(hi, lo) == [hi |-> hi, lo |-> lo]

N(n) == IF n < 0 THEN Big(-1, 0) ELSE Big(0, n)

\* The value as a model integer, capped at Limb (beyond any buffer length).
ToInt(v) == IF v.hi > 0 THEN Limb ELSE v.lo

(***************************************************************************)
(* write_varint: 7 bits per byte, least significant group first.           *)
(***************************************************************************)
RECURSIVE VarintGroups(_)
VarintGroups(value) ==
    IF value.hi > 0 \/ value.lo >= 128
    THEN <<(value.lo % 128) + 128>>
         \o VarintGroups(Big(value.hi \div 128, (value.hi % 128) * 2097152 + value.lo \div 128))
    ELSE <<value.lo % 128>>

write_varint(value) == VarintGroups(IF value.hi < 0 THEN Big(0, 0) ELSE value)

(***************************************************************************)
(* read_varint(f) at position pos (1-based index of the next byte).        *)
(* Result: ok, the value, the position after the bytes consumed.           *)
(* f.read(1)[0] at end of stream raises IndexError.                        *)
(***************************************************************************)
VarintErr(pos, why) == [ok |-> FALSE, value |-> Big(0, 0), pos |-> pos, err |-> why]

\* A reader that gives up one group early (shift >= 28 instead of >= 35):
\* it cannot read back the 5-byte varints write_varint produces.
RECURSIVE ReadVarintLoopShort(_, _, _, _)
ReadVarintLoopShort(data, pos, result, shift) ==
    IF pos > Len(data) THEN VarintErr(pos, "index out of range")
    ELSE LET byte == data[pos]
             grp == byte % 128
             res == IF shift < 28 THEN Big(result.hi, result.lo + grp * Pow2(shift))
                                  ELSE Big(result.hi + grp, result.lo)
         IN IF byte < 128
            THEN [ok |-> TRUE, value |-> res, pos |-> pos + 1, err |-> ""]
            ELSE IF shift + 7 >= 28
                 THEN VarintErr(pos + 1, "Varint too long")
                 ELSE ReadVarintLoopShort(data, pos + 1, res, shift + 7)

RECURSIVE ReadVarintLoop(_, _, _, _)
ReadVarintLoop(data, pos, result, shift) ==
    IF pos > Len(data) THEN VarintErr(pos, "index out of range")
    ELSE LET byte == data[pos]
             grp == byte % 128
             res == IF shift < 28 THEN Big(result.hi, result.lo + grp * Pow2(shift))
                                  ELSE Big(result.hi + grp, result.lo)
         IN IF byte < 128
            THEN [ok |-> TRUE, value |-> res, pos |-> pos + 1, err |-> ""]
            ELSE IF shift + 7 >= 35
                 THEN VarintErr(pos + 1, "Varint too long")
                 ELSE ReadVarintLoop(data, pos + 1, res, shift + 7)

read_varint(data, pos) == ReadVarintLoop(data, pos, Big(0, 0), 0)

(***************************************************************************)
(* Text to number: str.strip, int(s), float(s), is_numeric.                *)
(* Over Alphabet there is no exponent, underscore, "inf" or "nan", so a    *)
(* float literal is [sign] digits [. digits] or [sign] . digits.           *)
(***************************************************************************)
IsDigit(c) == c \in {"0", "1", "2", "3", "4", "5", "6", "7", "8", "9"}

DigitVal(c) == Ord(c) - 48

RECURSIVE LStrip(_)
LStrip(s) == IF s # <<>> /\ Head(s) = " " THEN LStrip(Tail(s)) ELSE s

RECURSIVE RStrip(_)
RStrip(s) == IF s # <<>> /\ s[Len(s)] = " " THEN RStrip(SubSeq(s, 1, Len(s) - 1)) ELSE s

Strip(s) == RStrip(LStrip(s))

HasSign(s) == s # <<>> /\ Head(s) \in {"+", "-"}

Unsigned(s) == IF HasSign(s) THEN Tail(s) ELSE s

IsNegative(s) == s # <<>> /\ Head(s) = "-"

AllDigits(s) == \A i \in 1..Len(s) : IsDigit(s[i])

RECURSIVE DigitsValue(_)
DigitsValue(s) == IF s = <<>> THEN 0 ELSE 10 * DigitsValue(SubSeq(s, 1, Len(s) - 1)) + DigitVal(s[Len(s)])

\* int(s) does not raise ValueError.
IntSyntax(s) == LET b == Unsigned(Strip(s)) IN b # <<>> /\ AllDigits(b)

IntValue(s) == LET t == Strip(s) IN (IF IsNegative(t) THEN -1 ELSE 1) * DigitsValue(Unsigned(t))

DotAt(s) == IF \E i \in 1..Len(s) : s[i] = "."
            THEN CHOOSE i \in 1..Len(s) : s[i] = "." /\ \A j \in 1..(i - 1) : s[j] # "."
            ELSE 0

\* float(s) does not raise ValueError.
FloatSyntax(s) ==
    LET b == Unsigned(Strip(s))
        d == DotAt(b)
        ip == IF d = 0 THEN b ELSE SubSeq(b, 1, d - 1)
        fp == IF d = 0 THEN <<>> ELSE SubSeq(b, d + 1, Len(b))
    IN AllDigits(ip) /\ AllDigits(fp) /\ Len(ip) + Len(fp) > 0

\* float(s), in halves.  Exact when the fraction is a multiple of 0.5
\* (FloatExact); the inputs of the model are chosen so.
FloatExact(s) ==
    LET b == Unsigned(Strip(s))
        d == DotAt(b)
        fp == IF d = 0 THEN <<>> ELSE SubSeq(b, d + 1, Len(b))
    IN (2 * DigitsValue(fp)) % Pow10(Len(fp)) = 0

FloatHalves(s) ==
    LET t == Strip(s)
        b == Unsigned(t)
        d == DotAt(b)
        ip == IF d = 0 THEN b ELSE SubSeq(b, 1, d - 1)
        fp == IF d = 0 THEN <<>> ELSE SubSeq(b, d + 1, Len(b))
    IN (IF IsNegative(t) THEN -1 ELSE 1)
       * (2 * DigitsValue(ip) + (2 * DigitsValue(fp)) \div Pow10(Len(fp)))

is_numeric(s) == s # <<>> /\ FloatSyntax(s)

(***************************************************************************)
(* Number to text: str(int) and the decoder's printing of a float          *)
(* (str(int(val)) when val == int(val), else str(val)).                    *)
(***************************************************************************)
DigitChar(d) == Chr(48 + d)

RECURSIVE NatToStr(_)
NatToStr(n) == IF n < 10 THEN <<DigitChar(n)>> ELSE NatToStr(n \div 10) \o <<DigitChar(n % 10)>>

IntToStr(i) == IF i < 0 THEN <<"-">> \o NatToStr(-i) ELSE NatToStr(i)

FloatToStr(h) ==
    IF h % 2 = 0 THEN IntToStr(h \div 2)
    ELSE (IF h < 0 THEN <<"-">> ELSE <<>>) \o NatToStr(Abs(h) \div 2) \o <<".", "5">>

(***************************************************************************)
(* struct.pack / struct.unpack, big-endian.                                *)
(***************************************************************************)
\* '>b', '>h', '>i', '>q': two's complement of i in w bytes (|i| < 2^31).
PackInt(i, w) ==
    [k \in 1..w |->
        IF w - k >= 4 THEN (IF i < 0 THEN 255 ELSE 0)
        ELSE (i \div Pow2(8 * (w - k))) % 256]

RECURSIVE BytesValue(_)
BytesValue(bs) == IF bs = <<>> THEN 0 ELSE 256 * BytesValue(SubSeq(bs, 1, Len(bs) - 1)) + bs[Len(bs)]

\* The signed value of 1, 2, 4 or 8 bytes; for 8 bytes the value must lie in
\* the signed 32-bit range (InIntRange).
InIntRange(bs) ==
    Len(bs) <= 4 \/ (\A k \in 1..(Len(bs) - 4) : bs[k] = (IF bs[Len(bs) - 3] >= 128 THEN 255 ELSE 0))

UnpackInt(bs) ==
    LET low == IF Len(bs) > 4 THEN SubSeq(bs, Len(bs) - 3, Len(bs)) ELSE bs
    IN IF low[1] >= 128
       THEN -BytesValue([k \in 1..Len(low) |-> 255 - low[k]]) - 1
       ELSE BytesValue(low)

RECURSIVE Log2(_)
Log2(n) == IF n < 2 THEN 0 ELSE 1 + Log2(n \div 2)

\* '>d' of the float h/2: sign bit, 11-bit biased exponent, 52-bit mantissa
\* of which only the top 20 bits can be set for |h| < 2^21.
PackDouble(h) ==
    IF h = 0 THEN <<0, 0, 0, 0, 0, 0, 0, 0>>
    ELSE LET a == Abs(h)
             k == Log2(a)
             e == (k - 1) + 1023
             top == (a - Pow2(k)) * Pow2(20 - k)
         IN <<(IF h < 0 THEN 128 ELSE 0) + e \div 16,
              (e % 16) * 16 + top \div 65536,
              (top \div 256) % 256,
              top % 256,
              0, 0, 0, 0>>

\* The bytes are a float the model represents: a multiple of 0.5 below 2^20.
DoubleInModel(bs) ==
    \/ bs = <<0, 0, 0, 0, 0, 0, 0, 0>>
    \/ LET e == (bs[1] % 128) * 16 + bs[2] \div 16
           k == e - 1023 + 1
           top == (bs[2] % 16) * 65536 + bs[3] * 256 + bs[4]
       IN /\ bs[5] = 0 /\ bs[6] = 0 /\ bs[7] = 0 /\ bs[8] = 0
          /\ k >= 0 /\ k <= 20
          /\ top % Pow2(20 - k) = 0

UnpackDouble(bs) ==
    IF bs = <<0, 0, 0, 0, 0, 0, 0, 0>> THEN 0
    ELSE LET e == (bs[1] % 128) * 16 + bs[2] \div 16
             k == e - 1023 + 1
             top == (bs[2] % 16) * 65536 + bs[3] * 256 + bs[4]
             a == Pow2(k) + top \div Pow2(20 - k)
         IN IF bs[1] >= 128 THEN -a ELSE a

\* str(x) of a float x = h/2: always with a fractional part.
FloatRepr(h) ==
    (IF h < 0 THEN <<"-">> ELSE <<>>) \o NatToStr(Abs(h) \div 2)
    \o (IF h % 2 = 0 THEN <<".", "0">> ELSE <<".", "5">>)

(***************************************************************************)
(* Cells of the content after apply_delta_encoding: a str, or the tuple    *)
(* ('delta', d).                                                           *)
(***************************************************************************)
Str(s) == [k |-> "s", s |-> s, d |-> 0]

Delta(d) == [k |-> "d", s |-> <<>>, d |-> d]

IsDelta(cell) == cell.k = "d"

WrapRow(row) == [i \in 1..Len(row) |-> Str(row[i])]

WrapRows(rows) == [r \in 1..Len(rows) |-> WrapRow(rows[r])]

RECURSIVE MaxLen(_)
MaxLen(rows) == IF rows = <<>> THEN 0
                ELSE LET m == MaxLen(Tail(rows)) IN IF Len(Head(rows)) > m THEN Len(Head(rows)) ELSE m

(***************************************************************************)
(* optimize_csv: drop the columns that are empty in every row.  Column     *)
(* indices are 0-based as in the code; row[c + 1] is the code's row[c].    *)
(***************************************************************************)
EmptyCols(rows) ==
    {c \in 0..(MaxLen(rows) - 1) :
        \A r \in 1..Len(rows) : ~(c < Len(rows[r]) /\ rows[r][c + 1] # <<>>)}

RECURSIVE DropCols(_, _, _)
DropCols(row, idx, cols) ==
    IF row = <<>> THEN <<>>
    ELSE (IF idx \in cols THEN <<>> ELSE <<Head(row)>>) \o DropCols(Tail(row), idx + 1, cols)

optimize_csv(rows) ==
    IF rows = <<>> THEN rows
    ELSE IF EmptyCols(rows) # {}
         THEN [r \in 1..Len(rows) |-> DropCols(rows[r], 0, EmptyCols(rows))]
         ELSE rows

(***************************************************************************)
(* apply_delta_encoding.                                                   *)
(***************************************************************************)
SampleRows == 100

\* A detection that gives a column up at the first sampled cell that is
\* not a number.
NumericColsStrict(data) ==
    LET sample_size == Min2(SampleRows, Len(data))
        numeric_count(c) ==
            Cardinality({r \in 1..sample_size : c < Len(data[r]) /\ is_numeric(data[r][c + 1])})
    IN {c \in 0..(MaxLen(data) - 1) :
           /\ 10 * numeric_count(c) >= 8 * sample_size
           /\ \A r \in 1..sample_size : c < Len(data[r]) => is_numeric(data[r][c + 1])}

\* numeric_count >= sample_size * 0.8, in integers.
NumericCols(data) ==
    LET sample_size == Min2(SampleRows, Len(data))
        numeric_count(c) ==
            Cardinality({r \in 1..sample_size : c < Len(data[r]) /\ is_numeric(data[r][c + 1])})
    IN {c \in 0..(MaxLen(data) - 1) : 10 * numeric_count(c) >= 8 * sample_size}

\* abs(delta) < abs(float(cell)) * 0.8, in halves.
DeltaCell(cell, prev) ==
    LET delta == FloatHalves(cell) - FloatHalves(prev)
    IN IF 10 * Abs(delta) < 8 * Abs(FloatHalves(cell)) THEN Delta(delta) ELSE Str(cell)

DeltaRow(row, prev_row, numeric_cols) ==
    [i \in 1..Len(row) |->
        IF /\ (i - 1) \in numeric_cols
           /\ prev_row # <<>>
           /\ i - 1 < Len(prev_row)
           /\ is_numeric(row[i])
           /\ is_numeric(prev_row[i])
        THEN DeltaCell(row[i], prev_row[i])
        ELSE Str(row[i])]

apply_delta_encoding(data, is_csv) ==
    IF ~is_csv THEN [data |-> WrapRow(data), numeric_cols |-> {}]
    ELSE IF data = <<>> THEN [data |-> data, numeric_cols |-> {}]
    ELSE IF NumericCols(data) = {} THEN [data |-> WrapRows(data), numeric_cols |-> {}]
    ELSE [data |-> [r \in 1..Len(data) |->
                       DeltaRow(data[r], IF r = 1 THEN <<>> ELSE data[r - 1], NumericCols(data))],
          numeric_cols |-> NumericCols(data)]

(***************************************************************************)
(* apply_run_length_encoding: the same loop for rows and for lines.        *)
(***************************************************************************)
Repeat(count, value) == [kind |-> "repeat", count |-> count, value |-> value]

Literal(value) == [kind |-> "data", count |-> 1, value |-> value]

RleItem(count, value) == IF count > 1 THEN Repeat(count, value) ELSE Literal(value)

\* The loop from element i on, the current run being count copies of prev.
RECURSIVE RleLoop(_, _, _, _)
RleLoop(data, i, prev, count) ==
    IF i > Len(data) THEN <<RleItem(count, prev)>>
    ELSE IF data[i] = prev THEN RleLoop(data, i + 1, prev, count + 1)
         ELSE <<RleItem(count, prev)>> \o RleLoop(data, i + 1, data[i], 1)

apply_run_length_encoding(data) ==
    IF data = <<>> THEN data ELSE RleLoop(data, 2, data[1], 1)

(***************************************************************************)
(* build_dictionary.  The cells counted are the truthy ones; a cell that   *)
(* is a ('delta', d) tuple is truthy and has no .encode, so the function   *)
(* raises AttributeError.                                                  *)
(***************************************************************************)
Cells(data, is_csv) == IF is_csv THEN Flatten(data) ELSE data

Truthy(cell) == IsDelta(cell) \/ cell.s # <<>>

\* A dictionary build that skips the cells that are not strings instead of
\* failing on them.
build_dictionary_skips(data, is_csv) == FALSE

build_dictionary_raises(data, is_csv) ==
    \E i \in 1..Len(Cells(data, is_csv)) : IsDelta(Cells(data, is_csv)[i])

\* The keys of the Counter in insertion order.
RECURSIVE CounterKeys(_, _)
CounterKeys(cells, seen) ==
    IF cells = <<>> THEN <<>>
    ELSE IF Truthy(Head(cells)) /\ Head(cells).s \notin seen
         THEN <<Head(cells).s>> \o CounterKeys(Tail(cells), seen \cup {Head(cells).s})
         ELSE CounterKeys(Tail(cells), seen)

CounterCount(cells, s) == Cardinality({i \in 1..Len(cells) : cells[i].s = s})

\* Counter.most_common(): sorted by count, largest first, equal counts in
\* insertion order (a stable sort).
RECURSIVE InsertByCount(_, _, _)
InsertByCount(sorted, s, cells) ==
    IF sorted = <<>> THEN <<s>>
    ELSE IF CounterCount(cells, Head(sorted)) >= CounterCount(cells, s)
         THEN <<Head(sorted)>> \o InsertByCount(Tail(sorted), s, cells)
         ELSE <<s>> \o sorted

RECURSIVE MostCommonLoop(_, _, _)
MostCommonLoop(keys, sorted, cells) ==
    IF keys = <<>> THEN sorted
    ELSE MostCommonLoop(Tail(keys), InsertByCount(sorted, Head(keys), cells), cells)

most_common(cells) == MostCommonLoop(CounterKeys(cells, {}), <<>>, cells)

\* count >= 2 or (count == 1 and s_bytes_len > 6)
DictThreshold == 6

Qualifies(s, cells) ==
    \/ CounterCount(cells, s) >= 2
    \/ CounterCount(cells, s) = 1 /\ Len(Utf8Encode(s)) > DictThreshold

\* A loop that advances idx for every counted string, also the ones it
\* leaves out: the indices it assigns have gaps.
RECURSIVE DictLoopGaps(_, _, _, _)
DictLoopGaps(mc, idx, dictionary, cells) ==
    IF mc = <<>> THEN dictionary
    ELSE IF Qualifies(Head(mc), cells)
         THEN DictLoopGaps(Tail(mc), idx + 1, (Head(mc) :> idx) @@ dictionary, cells)
         ELSE DictLoopGaps(Tail(mc), idx + 1, dictionary, cells)

\* The loop over most_common(): dictionary[s] = idx; idx += 1.
RECURSIVE DictLoop(_, _, _, _)
DictLoop(mc, idx, dictionary, cells) ==
    IF mc = <<>> THEN dictionary
    ELSE IF Qualifies(Head(mc), cells)
         THEN DictLoop(Tail(mc), idx + 1, (Head(mc) :> idx) @@ dictionary, cells)
         ELSE DictLoop(Tail(mc), idx, dictionary, cells)

build_dictionary(data, is_csv) ==
    DictLoop(most_common(Cells(data, is_csv)), 0, <<>>, Cells(data, is_csv))

(***************************************************************************)
(* encode_number: None, or the type tag with the packed bytes.             *)
(***************************************************************************)
NoNumber == [tag |-> "none", data |-> <<>>]

\* struct.pack('>i' or '>q', i) for an integer beyond 9 decimal digits, given
\* as its sign and the decimal digits of |i|: the w low-order bytes of |i| by
\* long division by 256, in two's complement when i < 0.
PackBig(neg, m, w) ==
    LET RECURSIVE DivMod(_, _, _)
        DivMod(x, carry, q) ==
            IF x = <<>> THEN [q |-> q, r |-> carry]
            ELSE DivMod(Tail(x), (carry * 10 + Head(x)) % 256,
                        Append(q, (carry * 10 + Head(x)) \div 256))
        RECURSIVE Bytes(_, _)
        Bytes(x, k) ==
            IF k = 0 THEN <<>> ELSE Bytes(DivMod(x, 0, <<>>).q, k - 1) \o <<DivMod(x, 0, <<>>).r>>
        nz == {k \in 1..w : Bytes(m, w)[k] # 0}
        last == CHOOSE k \in nz : \A j \in nz : j <= k
    IN IF ~neg \/ nz = {} THEN Bytes(m, w)
       ELSE [k \in 1..w |->
               IF k < last THEN 255 - Bytes(m, w)[k]
               ELSE IF k = last THEN 256 - Bytes(m, w)[k]
               ELSE 0]

\* The chain of range tests on i = int(s).  Up to 9 digits i is computed;
\* beyond, |i| is kept as its decimal digits m and compared digit by digit
\* (Fits(limit): -limit <= i < limit).  struct.pack('>q', i) raises
\* struct.error outside the signed 64-bit range, which the except clause
\* (ValueError, OverflowError) does not catch.
encode_number(s) ==
    IF "." \in Range(s)
    THEN IF FloatSyntax(s) THEN [tag |-> "float", data |-> PackDouble(FloatHalves(s))] ELSE NoNumber
    ELSE IF ~IntSyntax(s) THEN NoNumber
         ELSE LET b == Unsigned(Strip(s))
                  nz == {k \in 1..Len(b) : b[k] # "0"}
                  first == CHOOSE k \in nz : \A j \in nz : k <= j
                  m == IF nz = {} THEN <<>>
                       ELSE [k \in 1..(Len(b) - first + 1) |-> DigitVal(b[k + first - 1])]
                  neg == IsNegative(Strip(s))
                  small == Len(m) <= 9
                  i == IntValue(s)
                  Fits(limit) ==
                      \/ Len(m) < Len(limit)
                      \/ /\ Len(m) = Len(limit)
                         /\ \E k \in 1..Len(m) : m[k] < limit[k] /\ \A j \in 1..(k - 1) : m[j] = limit[j]
                      \/ neg /\ m = limit
              IN IF small /\ -128 <= i /\ i <= 127 THEN [tag |-> "int8", data |-> PackInt(i, 1)]
                 ELSE IF small /\ -32768 <= i /\ i <= 32767 THEN [tag |-> "int16", data |-> PackInt(i, 2)]
                 ELSE IF small THEN [tag |-> "int32", data |-> PackInt(i, 4)]
                 ELSE IF Fits(<<2, 1, 4, 7, 4, 8, 3, 6, 4, 8>>)
                      THEN [tag |-> "int32", data |-> PackBig(neg, m, 4)]
                 ELSE IF Fits(<<9, 2, 2, 3, 3, 7, 2, 0, 3, 6, 8, 5, 4, 7, 7, 5, 8, 0, 8>>)
                      THEN [tag |-> "int64", data |-> PackBig(neg, m, 8)]
                 ELSE [tag |-> "struct.error", data |-> <<>>]

(***************************************************************************)
(* _write_cell: the bytes written for one cell.                            *)
(***************************************************************************)
TagRaw == 0
TagEmpty == 1
TagDelta == 247
TagInt8 == 248
TagInt16 == 249
TagInt32 == 250
TagInt64 == 251
TagFloat == 252
TagDictRef == 255
MarkerLiteral == 253
MarkerRepeat == 254

NumberTag(tag) ==
    CASE tag = "int8" -> TagInt8
      [] tag = "int16" -> TagInt16
      [] tag = "int32" -> TagInt32
      [] tag = "int64" -> TagInt64
      [] tag = "float" -> TagFloat

\* A cell writer that looks a string up in the dictionary before trying
\* encode_number: a repeated number would become a DictRef.
write_cell_dict_first(cell, dictionary) ==
    IF ~Truthy(cell) THEN <<TagEmpty>>
    ELSE IF IsDelta(cell) THEN <<TagDelta>> \o PackDouble(cell.d)
    ELSE IF cell.s \in DOMAIN dictionary
         THEN <<TagDictRef>> \o write_varint(N(dictionary[cell.s]))
    ELSE IF encode_number(cell.s).tag # "none"
         THEN <<NumberTag(encode_number(cell.s).tag)>> \o encode_number(cell.s).data
    ELSE <<TagRaw>> \o write_varint(N(Len(Utf8Encode(cell.s)))) \o Utf8Encode(cell.s)

write_cell(cell, dictionary) ==
    IF ~Truthy(cell) THEN <<TagEmpty>>
    ELSE IF IsDelta(cell) THEN <<TagDelta>> \o PackDouble(cell.d)
    ELSE IF encode_number(cell.s).tag # "none"
         THEN <<NumberTag(encode_number(cell.s).tag)>> \o encode_number(cell.s).data
    ELSE IF cell.s \in DOMAIN dictionary
         THEN <<TagDictRef>> \o write_varint(N(dictionary[cell.s]))
    ELSE <<TagRaw>> \o write_varint(N(Len(Utf8Encode(cell.s)))) \o Utf8Encode(cell.s)

(***************************************************************************)
(* save_min_format, from the magic header to the last item: the container  *)
(* buffer handed to the compressor.                                        *)
(***************************************************************************)
Magic == <<77, 73, 78, 70, 77, 84>>

RECURSIVE SortedSeq(_)
SortedSeq(S) == IF S = {} THEN <<>>
                ELSE LET m == CHOOSE x \in S : \A y \in S : x <= y
                     IN <<m>> \o SortedSeq(S \ {m})

\* A writer that leaves the section out of a line-mode container altogether.
WriteNumericColsRowOnly(numeric_cols, is_csv) ==
    IF is_csv
    THEN write_varint(N(Cardinality(numeric_cols)))
         \o Flatten([i \in 1..Cardinality(numeric_cols) |-> write_varint(N(SortedSeq(numeric_cols)[i]))])
    ELSE <<>>

WriteNumericCols(numeric_cols, is_csv) ==
    IF is_csv
    THEN write_varint(N(Cardinality(numeric_cols)))
         \o Flatten([i \in 1..Cardinality(numeric_cols) |-> write_varint(N(SortedSeq(numeric_cols)[i]))])
    ELSE write_varint(N(0))

\* reverse_dict[idx], for idx in sorted(reverse_dict.keys())
ReverseDict(dictionary, idx) == CHOOSE s \in DOMAIN dictionary : dictionary[s] = idx

WriteDictionary(dictionary) ==
    write_varint(N(Cardinality(DOMAIN dictionary)))
    \o Flatten([i \in 1..Cardinality(DOMAIN dictionary) |->
                  LET s_bytes == Utf8Encode(ReverseDict(dictionary, SortedSeq({dictionary[s] : s \in DOMAIN dictionary})[i]))
                  IN write_varint(N(Len(s_bytes))) \o s_bytes])

WriteRow(row, dictionary, is_csv) ==
    IF is_csv
    THEN write_varint(N(Len(row))) \o Flatten([c \in 1..Len(row) |-> write_cell(row[c], dictionary)])
    ELSE write_cell(row, dictionary)

WriteItem(item, dictionary, is_csv) ==
    IF item.kind = "repeat"
    THEN <<MarkerRepeat>> \o write_varint(N(item.count)) \o WriteRow(item.value, dictionary, is_csv)
    ELSE <<MarkerLiteral>> \o WriteRow(item.value, dictionary, is_csv)

WriteContainer(rle_data, dictionary, numeric_cols, is_csv) ==
    Magic \o <<2>> \o <<IF is_csv THEN 1 ELSE 0>>
    \o WriteNumericCols(numeric_cols, is_csv)
    \o WriteDictionary(dictionary)
    \o write_varint(N(Len(rle_data)))
    \o Flatten([i \in 1..Len(rle_data) |-> WriteItem(rle_data[i], dictionary, is_csv)])

(***************************************************************************)
(* The decoder.  Every read returns [ok, val, pos]: pos is the 1-based     *)
(* index of the next unread byte; ok = FALSE stands for a raised exception.*)
(***************************************************************************)
Ok(val, pos) == [ok |-> TRUE, val |-> val, pos |-> pos]

Raise(pos) == [ok |-> FALSE, val |-> <<>>, pos |-> pos]

\* f.read(n): the next n bytes, fewer at the end of the stream.
Read(data, pos, n) == SubSeq(data, pos, Min2(pos + n - 1, Len(data)))

\* The value v, evaluated once, handed to F.
Bind(v, F(_)) == CHOOSE r \in {F(x) : x \in {v}} : TRUE

\* f.read(str_len).decode('utf-8') after str_len = read_varint(f)
ReadString(data, pos) ==
    Bind(read_varint(data, pos), LAMBDA len :
        IF ~len.ok THEN Raise(len.pos)
        ELSE Bind(Read(data, len.pos, ToInt(len.value)), LAMBDA str_bytes :
                IF ~Utf8Decodable(str_bytes) THEN Raise(len.pos + Len(str_bytes))
                ELSE Ok(Utf8Decode(str_bytes), len.pos + Len(str_bytes))))

\* dictionary[dict_idx] after dict_idx = read_varint(f); the decoder's
\* dictionary is the sequence of its entries, entry idx at position idx + 1.
ReadDictRef(data, pos, dictionary) ==
    Bind(read_varint(data, pos), LAMBDA dict_idx :
        IF ~dict_idx.ok THEN Raise(dict_idx.pos)
        ELSE IF ToInt(dict_idx.value) >= Len(dictionary) THEN Raise(dict_idx.pos)
        ELSE Ok(dictionary[ToInt(dict_idx.value) + 1], dict_idx.pos))

\* struct.unpack of w bytes raises struct.error on a short read.  str() of
\* the value: computed as an integer when it has at most 9 digits for sure
\* (1 or 2 bytes, or 4 and 8 bytes that extend a 3-byte value), otherwise
\* by converting the bytes of its magnitude to decimal digits.
ReadInt(data, pos, w) ==
    LET Negated(x) ==
            LET nz == {k \in 1..Len(x) : x[k] # 0}
                last == CHOOSE k \in nz : \A j \in nz : j <= k
            IN IF nz = {} THEN x
               ELSE [k \in 1..Len(x) |->
                       IF k < last THEN 255 - x[k] ELSE IF k = last THEN 256 - x[k] ELSE 0]
        RECURSIVE MulAdd(_, _)
        MulAdd(a, carry) ==
            IF a = <<>>
            THEN IF carry = 0 THEN <<>> ELSE MulAdd(<<>>, carry \div 10) \o <<carry % 10>>
            ELSE MulAdd(SubSeq(a, 1, Len(a) - 1), (a[Len(a)] * 256 + carry) \div 10)
                 \o <<(a[Len(a)] * 256 + carry) % 10>>
        RECURSIVE Digits(_)
        Digits(x) == IF x = <<>> THEN <<>> ELSE MulAdd(Digits(SubSeq(x, 1, Len(x) - 1)), x[Len(x)])
        Text(x) == [k \in 1..Len(Digits(x)) |-> DigitChar(Digits(x)[k])]
        Short(x) == Len(x) <= 2 \/ (InIntRange(x) /\ x[Len(x) - 3] \in {0, 255})
    IN Bind(Read(data, pos, w), LAMBDA bs :
        IF Len(bs) < w THEN Raise(pos + Len(bs))
        ELSE IF Short(bs) THEN Ok(IntToStr(UnpackInt(bs)), pos + w)
        ELSE IF bs[1] >= 128 THEN Ok(<<"-">> \o Text(Negated(bs)), pos + w)
        ELSE Ok(Text(bs), pos + w))

ReadFloat(data, pos) ==
    Bind(Read(data, pos, 8), LAMBDA bs :
        IF Len(bs) < 8 THEN Raise(pos + Len(bs))
        ELSE Ok(FloatToStr(UnpackDouble(bs)), pos + 8))

\* The Delta branch: prev_row is <<>> for None (and for an empty row, which
\* is falsy too); float(prev_row[col_idx]) raising ValueError gives str(delta).
ReadDelta(data, pos, is_numeric_col, prev_row, col_idx) ==
    Bind(Read(data, pos, 8), LAMBDA bs :
        IF Len(bs) < 8 THEN Raise(pos + Len(bs))
        ELSE IF prev_row # <<>> /\ col_idx < Len(prev_row) /\ is_numeric_col
                /\ FloatSyntax(prev_row[col_idx + 1])
             THEN Ok(FloatToStr(FloatHalves(prev_row[col_idx + 1]) + UnpackDouble(bs)), pos + 8)
             ELSE Ok(FloatRepr(UnpackDouble(bs)), pos + 8))

read_cell(data, pos, dictionary, is_numeric_col, prev_row, col_idx) ==
    IF pos > Len(data) THEN Raise(pos)
    ELSE Bind(data[pos], LAMBDA flag :
            IF flag = TagRaw THEN ReadString(data, pos + 1)
            ELSE IF flag = TagEmpty THEN Ok(<<>>, pos + 1)
            ELSE IF flag = TagDelta THEN ReadDelta(data, pos + 1, is_numeric_col, prev_row, col_idx)
            ELSE IF flag = TagDictRef THEN ReadDictRef(data, pos + 1, dictionary)
            ELSE IF flag = TagInt8 THEN ReadInt(data, pos + 1, 1)
            ELSE IF flag = TagInt16 THEN ReadInt(data, pos + 1, 2)
            ELSE IF flag = TagInt32 THEN ReadInt(data, pos + 1, 4)
            ELSE IF flag = TagInt64 THEN ReadInt(data, pos + 1, 8)
            ELSE IF flag = TagFloat THEN ReadFloat(data, pos + 1)
            ELSE Raise(pos + 1))

\* Version 1 cell: any flag other than 0xFF is read as a length-prefixed string.
read_cell_v1(data, pos, dictionary) ==
    IF pos > Len(data) THEN Raise(pos)
    ELSE IF data[pos] = TagDictRef THEN ReadDictRef(data, pos + 1, dictionary)
    ELSE ReadString(data, pos + 1)

\* The decoder's loops.  A loop state st is [ok, val, pos, n]: val is what
\* the loop has built, n the iterations left.
Loop(val, pos, n) == [ok |-> TRUE, val |-> val, pos |-> pos, n |-> n]

LoopRaise(pos) == [ok |-> FALSE, val |-> <<>>, pos |-> pos, n |-> 0]

\* for _ in range(num_numeric_cols): numeric_cols.add(read_varint(f))
RECURSIVE ReadNumericCols(_, _)
ReadNumericCols(data, st) ==
    IF ~st.ok \/ st.n = 0 THEN st
    ELSE Bind(read_varint(data, st.pos), LAMBDA col_idx :
            ReadNumericCols(data,
                IF ~col_idx.ok THEN LoopRaise(col_idx.pos)
                ELSE Loop(st.val \cup {ToInt(col_idx.value)}, col_idx.pos, st.n - 1)))

\* for idx in range(dict_size): dictionary[idx] = f.read(read_varint(f)).decode('utf-8')
RECURSIVE ReadDictionary(_, _)
ReadDictionary(data, st) ==
    IF ~st.ok \/ st.n = 0 THEN st
    ELSE Bind(ReadString(data, st.pos), LAMBDA e :
            ReadDictionary(data,
                IF ~e.ok THEN LoopRaise(e.pos) ELSE Loop(Append(st.val, e.val), e.pos, st.n - 1)))

\* for col_idx in range(col_count): row.append(_read_cell(...)); st.val is the row.
RECURSIVE ReadCells(_, _, _, _, _, _)
ReadCells(data, dictionary, numeric_cols, prev_row, version, st) ==
    IF ~st.ok \/ st.n = 0 THEN st
    ELSE Bind(IF version >= 2
              THEN read_cell(data, st.pos, dictionary, Len(st.val) \in numeric_cols, prev_row, Len(st.val))
              ELSE read_cell_v1(data, st.pos, dictionary),
              LAMBDA cell :
                ReadCells(data, dictionary, numeric_cols, prev_row, version,
                    IF ~cell.ok THEN LoopRaise(cell.pos)
                    ELSE Loop(Append(st.val, cell.val), cell.pos, st.n - 1)))

\* One row (col_count, then the cells) or one line; content is what has been
\* decoded so far (prev_row = content[-1] if content else None).
ReadRow(data, pos, dictionary, numeric_cols, content, is_csv, version) ==
    IF is_csv
    THEN Bind(read_varint(data, pos), LAMBDA col_count :
            IF ~col_count.ok THEN Raise(col_count.pos)
            ELSE Bind(ReadCells(data, dictionary, numeric_cols,
                                IF content = <<>> THEN <<>> ELSE content[Len(content)], version,
                                Loop(<<>>, col_count.pos, ToInt(col_count.value))),
                      LAMBDA st : IF st.ok THEN Ok(st.val, st.pos) ELSE Raise(st.pos)))
    ELSE IF version >= 2 THEN read_cell(data, pos, dictionary, FALSE, <<>>, 0)
    ELSE read_cell_v1(data, pos, dictionary)

\* One item of version 2: the marker, then Repeat or Literal.
ReadItem(data, dictionary, numeric_cols, is_csv, st) ==
    IF st.pos > Len(data) THEN LoopRaise(st.pos)
    ELSE IF data[st.pos] = MarkerRepeat
         THEN Bind(read_varint(data, st.pos + 1), LAMBDA count :
                IF ~count.ok THEN LoopRaise(count.pos)
                ELSE Bind(ReadRow(data, count.pos, dictionary, numeric_cols, st.val, is_csv, 2),
                          LAMBDA row :
                            IF ~row.ok THEN LoopRaise(row.pos)
                            ELSE Loop(st.val \o Replicate(ToInt(count.value), row.val), row.pos, st.n - 1)))
    ELSE IF data[st.pos] = MarkerLiteral
         THEN Bind(ReadRow(data, st.pos + 1, dictionary, numeric_cols, st.val, is_csv, 2),
                   LAMBDA row :
                     IF ~row.ok THEN LoopRaise(row.pos)
                     ELSE Loop(Append(st.val, row.val), row.pos, st.n - 1))
    ELSE LoopRaise(st.pos + 1)

\* One row or line of version 1: no marker.
ReadItemV1(data, dictionary, is_csv, st) ==
    Bind(ReadRow(data, st.pos, dictionary, {}, st.val, is_csv, 1), LAMBDA row :
        IF ~row.ok THEN LoopRaise(row.pos) ELSE Loop(Append(st.val, row.val), row.pos, st.n - 1))

\* for _ in range(item_count) / for _ in range(row_count)
RECURSIVE ReadItems(_, _, _, _, _, _)
ReadItems(data, dictionary, numeric_cols, is_csv, version, st) ==
    IF ~st.ok \/ st.n = 0 THEN st
    ELSE Bind(IF version >= 2 THEN ReadItem(data, dictionary, numeric_cols, is_csv, st)
              ELSE ReadItemV1(data, dictionary, is_csv, st),
              LAMBDA next : ReadItems(data, dictionary, numeric_cols, is_csv, version, next))

(***************************************************************************)
(* decompress_min on the decompressed buffer: [ok, content, is_csv].       *)
(***************************************************************************)
DecodeError == [ok |-> FALSE, content |-> <<>>, is_csv |-> FALSE]

\* The numeric columns section of version 2: the indices for a row-mode
\* file, one varint that is skipped for a line-mode file.
ReadNumericSection(data, version, is_csv) ==
    IF version >= 2
    THEN Bind(read_varint(data, 9), LAMBDA num_numeric_cols :
            IF ~num_numeric_cols.ok THEN LoopRaise(num_numeric_cols.pos)
            ELSE IF is_csv
                 THEN ReadNumericCols(data, Loop({}, num_numeric_cols.pos, ToInt(num_numeric_cols.value)))
                 ELSE Loop({}, num_numeric_cols.pos, 0))
    ELSE Loop({}, 9, 0)

ReadDictionarySection(data, pos) ==
    Bind(read_varint(data, pos), LAMBDA dict_size :
        IF ~dict_size.ok THEN LoopRaise(dict_size.pos)
        ELSE ReadDictionary(data, Loop(<<>>, dict_size.pos, ToInt(dict_size.value))))

ReadItemsSection(data, pos, dictionary, numeric_cols, is_csv, version) ==
    Bind(read_varint(data, pos), LAMBDA item_count :
        IF ~item_count.ok THEN LoopRaise(item_count.pos)
        ELSE ReadItems(data, dictionary, numeric_cols, is_csv, version,
                       Loop(<<>>, item_count.pos, ToInt(item_count.value))))

DecodeBody(data, version, is_csv) ==
    Bind(ReadNumericSection(data, version, is_csv), LAMBDA numeric_cols :
        IF ~numeric_cols.ok THEN DecodeError
        ELSE Bind(ReadDictionarySection(data, numeric_cols.pos), LAMBDA dictionary :
                IF ~dictionary.ok THEN DecodeError
                ELSE Bind(ReadItemsSection(data, dictionary.pos, dictionary.val, numeric_cols.val,
                                           is_csv, version),
                          LAMBDA content :
                            IF ~content.ok THEN DecodeError
                            ELSE [ok |-> TRUE, content |-> content.val, is_csv |-> is_csv])))

decompress_min(data) ==
    IF Read(data, 1, 6) # Magic THEN DecodeError
    ELSE IF Len(data) < 7 THEN DecodeError
    ELSE IF data[7] \notin {1, 2} THEN DecodeError
    ELSE IF Len(data) < 8 THEN DecodeError
    ELSE DecodeBody(data, data[7], data[8] = 1)

(***************************************************************************)
(* dedupe_file on the parsed input: the rows of csv.reader, or the lines   *)
(* of the file.  Returns unique_rows and num_removed.                      *)
(***************************************************************************)
CleanRow(row) == [i \in 1..Len(row) |-> Strip(row[i])]

\* while cleaned and cleaned[-1] == '': cleaned.pop()
RECURSIVE PopTrailingEmpty(_)
PopTrailingEmpty(cleaned) ==
    IF cleaned # <<>> /\ cleaned[Len(cleaned)] = <<>>
    THEN PopTrailingEmpty(SubSeq(cleaned, 1, Len(cleaned) - 1))
    ELSE cleaned

Cleaned(raw, is_csv) == IF is_csv THEN PopTrailingEmpty(CleanRow(raw)) ELSE Strip(raw)

\* "not cleaned or all(c == '' for c in cleaned)" for a row, "not cleaned" for a line
Blank(cleaned, is_csv) ==
    IF is_csv THEN cleaned = <<>> \/ \A i \in 1..Len(cleaned) : cleaned[i] = <<>>
    ELSE cleaned = <<>>

\* A loop that counts only the duplicates it drops, not the blank rows.
RECURSIVE DedupeLoopDuplicatesOnly(_, _, _, _, _)
DedupeLoopDuplicatesOnly(rows, is_csv, seen, unique_rows, removed) ==
    IF rows = <<>> THEN [unique_rows |-> unique_rows, num_removed |-> removed]
    ELSE LET cleaned == Cleaned(Head(rows), is_csv)
         IN IF Blank(cleaned, is_csv)
            THEN DedupeLoopDuplicatesOnly(Tail(rows), is_csv, seen, unique_rows, removed)
            ELSE IF cleaned \notin seen
                 THEN DedupeLoopDuplicatesOnly(Tail(rows), is_csv, seen \cup {cleaned},
                                               Append(unique_rows, cleaned), removed)
                 ELSE DedupeLoopDuplicatesOnly(Tail(rows), is_csv, seen, unique_rows, removed + 1)

RECURSIVE DedupeLoop(_, _, _, _, _)
DedupeLoop(rows, is_csv, seen, unique_rows, removed) ==
    IF rows = <<>> THEN [unique_rows |-> unique_rows, num_removed |-> removed]
    ELSE LET cleaned == Cleaned(Head(rows), is_csv)
         IN IF Blank(cleaned, is_csv)
            THEN DedupeLoop(Tail(rows), is_csv, seen, unique_rows, removed + 1)
            ELSE IF cleaned \notin seen
                 THEN DedupeLoop(Tail(rows), is_csv, seen \cup {cleaned}, Append(unique_rows, cleaned), removed)
                 ELSE DedupeLoop(Tail(rows), is_csv, seen, unique_rows, removed + 1)

dedupe_file(rows, is_csv) == DedupeLoop(rows, is_csv, {}, <<>>, 0)

(***************************************************************************)
(* Inputs of the model.                                                    *)
(***************************************************************************)
S_a == <<"a">>
S_b == <<"b">>
S_x == <<"x">>
S_y == <<"y">>
S_1 == <<"1">>
S_2 == <<"2">>
S_7 == <<"7">>
S_007 == <<"0", "0", "7">>
S_plus5 == <<"+", "5">>
S_1dot0 == <<"1", ".", "0">>
S_2dot5 == <<"2", ".", "5">>
S_10 == <<"1", "0">>
S_11 == <<"1", "1">>
S_12 == <<"1", "2">>
S_15 == <<"1", "5">>
S_300 == <<"3", "0", "0">>
S_long == <<"a", "b", "a", "b", "a", "b", "a">>
S_longnum == <<"1", "2", "3", "4", "5", "6", "7">>
S_spa == <<" ", "a">>

CellPool == {<<>>, S_a, S_1, S_7}

LinePool == {<<>>, S_a, S_x, S_long, S_7, S_007}

RawCellPool == {<<>>, S_a, S_spa, S_7}

RawLinePool == {<<>>, S_a, S_spa, S_long, S_7, S_007}

\* Rows of 1 or more cells, at most n cells in all.
RECURSIVE RowContents(_, _)
RowContents(pool, n) ==
    {<<>>} \cup UNION {{<<r>> \o c : r \in [1..k -> pool], c \in RowContents(pool, n - k)} : k \in 1..n}

\* The scenarios of the specification's section 8, and the cell kinds the
\* generated contents leave out.
ScenarioRows == {
    <<<<S_a, S_1>>, <<S_a, S_1>>, <<S_b, S_2>>>>,
    <<<<S_10>>, <<S_12>>, <<S_11>>, <<S_15>>>>,
    <<<<S_a, S_long>>, <<S_b, S_1dot0>>>>,
    <<<<S_a, S_300>>, <<S_a, S_2dot5>>, <<S_long, S_plus5>>>>,
    <<<<S_10>>, <<S_15>>, <<S_15>>>>,
    <<<<S_1, S_a>>, <<S_7, S_a>>, <<S_7, S_a>>>>,
    <<<<S_10>>, <<S_300>>, <<S_a>>, <<S_1>>, <<S_7>>>>,
    <<<<S_10>>, <<S_11>>, <<S_12>>>> }

ScenarioLines == {
    <<S_x, S_x, S_x, S_y>>,
    <<S_007, S_plus5, S_1dot0, S_2dot5>>,
    <<S_12, S_12, S_long, S_longnum>>,
    <<S_long, S_x, S_x, S_300>>,
    <<<<"1", "2", "8">>, <<"-", "1", "2", "9">>, <<"3", "2", "7", "6", "8">>,
      <<"-", "3", "2", "7", "6", "9">>, <<"-", "2", "1", "4", "7", "4", "8", "3", "6", "4", "8">>,
      <<"2", "1", "4", "7", "4", "8", "3", "6", "4", "8">>>>,
    <<<<"9", "2", "2", "3", "3", "7", "2", "0", "3", "6", "8", "5", "4", "7", "7", "5", "8", "0", "7">>,
      <<"-", "9", "2", "2", "3", "3", "7", "2", "0", "3", "6", "8", "5", "4", "7", "7", "5", "8", "0", "8">>,
      <<"-", "2", "1", "4", "7", "4", "8", "3", "6", "4", "9">>>>,
    <<S_7, <<"9", "2", "2", "3", "3", "7", "2", "0", "3", "6", "8", "5", "4", "7", "7", "5", "8", "0", "8">>>>,
    <<<<"-", "9", "2", "2", "3", "3", "7", "2", "0", "3", "6", "8", "5", "4", "7", "7", "5", "8", "0", "9">>>> }

CodecInputs ==
    {[is_csv |-> TRUE, content |-> c] : c \in RowContents(CellPool, MaxCells) \cup ScenarioRows}
    \cup {[is_csv |-> FALSE, content |-> c] : c \in SeqsUpTo(LinePool, MaxLines) \cup ScenarioLines}

RawInputs ==
    {[is_csv |-> TRUE, content |-> c] : c \in RowContents(RawCellPool, MaxCells) \cup ScenarioRows}
    \cup {[is_csv |-> FALSE, content |-> c] : c \in SeqsUpTo(RawLinePool, MaxLines) \cup ScenarioLines}

(***************************************************************************)
(* State.                                                                  *)
(***************************************************************************)
VARIABLES
    pc,            \* position in process_file / save_min_format / the decoder
    is_csv,        \* content kind of the file
    input,         \* the rows or lines handed to the entry point
    content,       \* save_min_format's content
    num_removed,   \* dedupe_file's second result
    numeric_cols,  \* apply_delta_encoding's second result
    rle_data,      \* apply_run_length_encoding's result
    dictionary,    \* build_dictionary's result
    buffer,        \* the container buffer
    out_file,      \* the bytes of the .min file (after decompression), <<>> if none
    error,         \* where the run failed, "" if it has not
    decoded,       \* decompress_min's result
    craft,         \* how a hand-made .min file was put together (SpecDecode)
    v_value,       \* the integer given to write_varint (SpecVarint)
    v_stream,      \* the byte stream read_varint reads
    v_result       \* read_varint's result

codec_vars == <<is_csv, input, content, num_removed, numeric_cols, rle_data, dictionary,
                buffer, out_file, error, decoded, craft>>

varint_vars == <<v_value, v_stream, v_result>>

vars == <<pc, codec_vars, varint_vars>>

NoDecode == [ok |-> FALSE, content |-> <<>>, is_csv |-> FALSE]

NoCraft == [family |-> "", magic_ok |-> TRUE, version |-> 2, kind |-> 0, marker |-> 0, tag |-> 0,
            expect |-> <<>>]

InitWith(entry, in) ==
    /\ pc = entry
    /\ is_csv = in.is_csv
    /\ input = in.content
    /\ content = IF entry = "save_min_format" THEN in.content ELSE <<>>
    /\ num_removed = 0
    /\ numeric_cols = {}
    /\ rle_data = <<>>
    /\ dictionary = <<>>
    /\ buffer = <<>>
    /\ out_file = <<>>
    /\ error = ""
    /\ decoded = NoDecode
    /\ craft = NoCraft
    /\ v_value = Big(0, 0)
    /\ v_stream = <<>>
    /\ v_result = VarintErr(1, "")

\* process_file(filepath) of dedupe_files.py is about to run.
Init == \E in \in RawInputs : InitWith("process_file", in)

\* save_min_format(filepath, content, is_csv) is about to run.
InitCodec == \E in \in CodecInputs : InitWith("save_min_format", in)

(***************************************************************************)
(* process_file of dedupe_files.py: an empty file is refused, otherwise    *)
(* dedupe_file runs and its rows go to save_min_format.                    *)
(***************************************************************************)
DedupeFile ==
    /\ pc = "process_file"
    /\ IF input = <<>>
       THEN /\ pc' = "failed"
            /\ error' = "empty file"
            /\ UNCHANGED <<content, num_removed>>
       ELSE /\ pc' = "save_min_format"
            /\ content' = dedupe_file(input, is_csv).unique_rows
            /\ num_removed' = dedupe_file(input, is_csv).num_removed
            /\ UNCHANGED error
    /\ UNCHANGED <<is_csv, input, numeric_cols, rle_data, dictionary, buffer, out_file, decoded,
                   craft, varint_vars>>

(***************************************************************************)
(* save_min_format, one step per statement of its try block.               *)
(***************************************************************************)
OptimizeCsv ==
    /\ pc = "save_min_format"
    /\ content' = IF is_csv THEN optimize_csv(content) ELSE content
    /\ pc' = "delta"
    /\ UNCHANGED <<is_csv, input, num_removed, numeric_cols, rle_data, dictionary, buffer, out_file,
                   error, decoded, craft, varint_vars>>

ApplyDelta ==
    /\ pc = "delta"
    /\ content' = IF is_csv THEN apply_delta_encoding(content, is_csv).data ELSE WrapRow(content)
    /\ numeric_cols' = IF is_csv THEN apply_delta_encoding(content, is_csv).numeric_cols ELSE {}
    /\ pc' = "rle"
    /\ UNCHANGED <<is_csv, input, num_removed, rle_data, dictionary, buffer, out_file, error,
                   decoded, craft, varint_vars>>

ApplyRle ==
    /\ pc = "rle"
    /\ rle_data' = apply_run_length_encoding(content)
    /\ pc' = "dictionary"
    /\ UNCHANGED <<is_csv, input, content, num_removed, numeric_cols, dictionary, buffer, out_file,
                   error, decoded, craft, varint_vars>>

BuildDictionary ==
    /\ pc = "dictionary"
    /\ IF build_dictionary_raises(content, is_csv)
       THEN /\ pc' = "failed"
            /\ error' = "build_dictionary"
            /\ UNCHANGED dictionary
       ELSE /\ pc' = "serialize"
            /\ dictionary' = build_dictionary(content, is_csv)
            /\ UNCHANGED error
    /\ UNCHANGED <<is_csv, input, content, num_removed, numeric_cols, rle_data, buffer, out_file, decoded,
                   craft, varint_vars>>

Serialize ==
    /\ pc = "serialize"
    /\ IF \E i \in 1..Len(Cells(content, is_csv)) :
             /\ Truthy(Cells(content, is_csv)[i])
             /\ ~IsDelta(Cells(content, is_csv)[i])
             /\ encode_number(Cells(content, is_csv)[i].s).tag = "struct.error"
       THEN /\ pc' = "failed"
            /\ error' = "struct.error"
            /\ UNCHANGED buffer
       ELSE /\ pc' = "compress"
            /\ buffer' = WriteContainer(rle_data, dictionary, numeric_cols, is_csv)
            /\ UNCHANGED error
    /\ UNCHANGED <<is_csv, input, content, num_removed, numeric_cols, rle_data, dictionary, out_file,
                   decoded, craft, varint_vars>>

\* A save step that opens and fills the output file before it knows the
\* compressor's answer: a failed run leaves a file behind.
CompressWritesFirst ==
    /\ pc = "compress"
    /\ out_file' = buffer
    /\ \E accepted \in BOOLEAN :
          IF accepted
          THEN /\ pc' = "written"
               /\ UNCHANGED error
          ELSE /\ pc' = "failed"
               /\ error' = "compress"
    /\ UNCHANGED <<is_csv, input, content, num_removed, numeric_cols, rle_data, dictionary, buffer,
                   decoded, craft, varint_vars>>

\* lzma.compress(..., format=FORMAT_ALONE, filters=[LZMA2 ...]) and the write
\* of the output file.  The compressor is a library outside this code: it is
\* lossless when it accepts the filter chain, and it raises when it rejects
\* it (CPython's lzma refuses an LZMA2 filter for FORMAT_ALONE); both
\* outcomes are taken.  out_file holds what lzma.decompress gives back.
Compress ==
    /\ pc = "compress"
    /\ \E accepted \in BOOLEAN :
          IF accepted
          THEN /\ out_file' = buffer
               /\ pc' = "written"
               /\ UNCHANGED error
          ELSE /\ pc' = "failed"
               /\ error' = "compress"
               /\ UNCHANGED out_file
    /\ UNCHANGED <<is_csv, input, content, num_removed, numeric_cols, rle_data, dictionary, buffer,
                   decoded, craft, varint_vars>>

(***************************************************************************)
(* process_file of decompress_min.py on the written file.                  *)
(***************************************************************************)
Decompress ==
    /\ pc = "written"
    /\ decoded' = decompress_min(out_file)
    /\ pc' = IF decoded'.ok THEN "decoded" ELSE "decode_failed"
    /\ UNCHANGED <<is_csv, input, content, num_removed, numeric_cols, rle_data, dictionary, buffer,
                   out_file, error, craft, varint_vars>>

SaveMinFormat == OptimizeCsv \/ ApplyDelta \/ ApplyRle \/ BuildDictionary \/ Serialize \/ Compress

Next == DedupeFile \/ SaveMinFormat \/ Decompress

Spec == Init /\ [][Next]_vars

NextCodec == SaveMinFormat \/ Decompress

SpecCodec == InitCodec /\ [][NextCodec]_vars

(***************************************************************************)
(* A written file cut short: decompress_min is given only the first k      *)
(* bytes of the container, with the contents that exercise every kind of   *)
(* field: strings of 2 and 7 bytes, a dictionary entry, numbers, rows.     *)
(***************************************************************************)
InitTrunc ==
    \E in \in {[is_csv |-> FALSE, content |-> c] :
                  c \in SeqsUpTo({S_x \o S_y, S_long, S_300}, MaxLines - 1)}
              \cup {[is_csv |-> TRUE, content |-> c] :
                  c \in RowContents({S_x \o S_y, S_long, S_7}, MaxCells - 2)} :
        InitWith("save_min_format", in)

Truncate ==
    /\ pc = "written"
    /\ craft.family = ""
    /\ \E k \in 1..(Len(out_file) - 1) : out_file' = SubSeq(out_file, 1, k)
    /\ craft' = [craft EXCEPT !.family = "truncated"]
    /\ UNCHANGED <<pc, is_csv, input, content, num_removed, numeric_cols, rle_data, dictionary,
                   buffer, error, decoded, varint_vars>>

SpecTrunc == InitTrunc /\ [][SaveMinFormat \/ Truncate \/ Decompress]_vars

(***************************************************************************)
(* The varint codec alone: write_varint(f, value), whatever is written     *)
(* after it, then read_varint(f); or read_varint on a stream that no       *)
(* write_varint produced.                                                  *)
(***************************************************************************)
VarintLows == {0, 1, 127, 128, 300, 16383, 16384, 2097151, 2097152, Limb - 1}

VarintHighs == {-1, 0, 1, 127, 128, 300}

TailBytes == {0, 1, 128, 255}

\* Streams whose first 5 bytes all carry the continuation flag.
ContinuationStreams ==
    {h \o t : h \in [1..5 -> {128, 255}], t \in SeqsUpTo(TailBytes, MaxTail + 1)}

InitVarint ==
    /\ \/ /\ pc = "write_varint"
          /\ v_value \in {Big(h, l) : h \in VarintHighs, l \in VarintLows}
          /\ v_stream = <<>>
       \/ /\ pc = "read_stream"
          /\ v_value = Big(0, 0)
          /\ v_stream \in ContinuationStreams
    /\ v_result = VarintErr(1, "")
    /\ is_csv = FALSE
    /\ input = <<>>
    /\ content = <<>>
    /\ num_removed = 0
    /\ numeric_cols = {}
    /\ rle_data = <<>>
    /\ dictionary = <<>>
    /\ buffer = <<>>
    /\ out_file = <<>>
    /\ error = ""
    /\ decoded = NoDecode
    /\ craft = NoCraft

WriteVarint ==
    /\ pc = "write_varint"
    /\ \E tail \in SeqsUpTo(TailBytes, MaxTail) : v_stream' = write_varint(v_value) \o tail
    /\ pc' = "read_varint"
    /\ UNCHANGED <<codec_vars, v_value, v_result>>

ReadVarint ==
    /\ pc \in {"read_varint", "read_stream"}
    /\ v_result' = read_varint(v_stream, 1)
    /\ pc' = IF pc = "read_varint" THEN "varint_done" ELSE "stream_done"
    /\ UNCHANGED <<codec_vars, v_value, v_stream>>

NextVarint == WriteVarint \/ ReadVarint

SpecVarint == InitVarint /\ [][NextVarint]_vars

(***************************************************************************)
(* The decoder alone, on hand-made .min files.                             *)
(*                                                                         *)
(* Family "fields": one dictionary entry "a" and one item of one cell,     *)
(* with the header bytes, the item marker and the cell tag taken from      *)
(* small sets; the cell's payload is 8 zero bytes, enough for every tag.   *)
(* Family "v1": the version-1 container of a content.                      *)
(***************************************************************************)
CraftTags == {0, 1, 2, 7, 128, 246, 247, 248, 249, 250, 251, 252, 253, 254, 255}

CraftMarkers == {0, 252, 253, 254, 255}

FieldCrafts ==
    {[family |-> "fields", magic_ok |-> m, version |-> v, kind |-> k, marker |-> mk, tag |-> t,
      expect |-> <<>>] :
        m \in BOOLEAN, v \in {0, 1, 2, 3}, k \in {0, 1, 2}, mk \in CraftMarkers, t \in CraftTags}

CraftBuffer(c) ==
    (IF c.magic_ok THEN Magic ELSE <<77, 73, 78, 70, 77, 88>>)
    \o <<c.version, c.kind>>
    \o (IF c.version >= 2 THEN <<0>> ELSE <<>>)
    \o <<1, 1, 97>>
    \o <<1>>
    \o (IF c.version >= 2 THEN <<c.marker>> \o (IF c.marker = MarkerRepeat THEN <<2>> ELSE <<>>) ELSE <<>>)
    \o (IF c.kind = 1 THEN <<1>> ELSE <<>>)
    \o <<c.tag>>
    \o <<0, 0, 0, 0, 0, 0, 0, 0>>

\* The version-1 layout: header, dictionary, plain item count, then every row
\* or line with cells tagged Empty, DictRef or RawString.
V1WriteCell(s, dict) ==
    IF s = <<>> THEN <<TagEmpty>>
    ELSE IF s \in DOMAIN dict THEN <<TagDictRef>> \o write_varint(N(dict[s]))
    ELSE <<TagRaw>> \o write_varint(N(Len(Utf8Encode(s)))) \o Utf8Encode(s)

V1Container(rows, csv) ==
    LET dict == build_dictionary(IF csv THEN WrapRows(rows) ELSE WrapRow(rows), csv)
    IN Magic \o <<1>> \o <<IF csv THEN 1 ELSE 0>>
       \o WriteDictionary(dict)
       \o write_varint(N(Len(rows)))
       \o Flatten([i \in 1..Len(rows) |->
                     IF csv
                     THEN write_varint(N(Len(rows[i])))
                          \o Flatten([c \in 1..Len(rows[i]) |-> V1WriteCell(rows[i][c], dict)])
                     ELSE V1WriteCell(rows[i], dict)])

V1Pool == {<<>>, S_a, S_long}

V1RowCrafts ==
    {[family |-> "v1", magic_ok |-> TRUE, version |-> 1, kind |-> 1, marker |-> 0, tag |-> 0,
      expect |-> c] : c \in RowContents(V1Pool, MaxCells - 1)}

V1LineCrafts ==
    {[family |-> "v1", magic_ok |-> TRUE, version |-> 1, kind |-> 0, marker |-> 0, tag |-> 0,
      expect |-> c] : c \in SeqsUpTo(V1Pool, MaxLines)}

InitDecode ==
    /\ pc = "written"
    /\ craft \in FieldCrafts \cup V1RowCrafts \cup V1LineCrafts
    /\ out_file = IF craft.family = "v1" THEN V1Container(craft.expect, craft.kind = 1)
                  ELSE CraftBuffer(craft)
    /\ is_csv = (craft.kind = 1)
    /\ input = <<>>
    /\ content = <<>>
    /\ num_removed = 0
    /\ numeric_cols = {}
    /\ rle_data = <<>>
    /\ dictionary = <<>>
    /\ buffer = <<>>
    /\ error = ""
    /\ decoded = NoDecode
    /\ v_value = Big(0, 0)
    /\ v_stream = <<>>
    /\ v_result = VarintErr(1, "")

NextDecode == Decompress

SpecDecode == InitDecode /\ [][NextDecode]_vars

(***************************************************************************)
(* Properties.                                                             *)
(***************************************************************************)
\* normalize(X): the rows or lines dedupe_file keeps, empty columns pruned.
Normalized ==
    IF is_csv THEN optimize_csv(dedupe_file(input, TRUE).unique_rows)
    ELSE dedupe_file(input, FALSE).unique_rows

\* What save_min_format was given, empty columns pruned (SpecCodec).
Original == IF is_csv THEN optimize_csv(input) ELSE input

\* One of the encoder's own steps raised (not the compressor, not the
\* refusal of an empty file).
EncoderFailed == pc = "failed" /\ error \notin {"empty file", "compress"}

\* content holds the cells apply_delta_encoding returned.
AfterDelta ==
    \/ pc \in {"rle", "dictionary", "serialize", "compress", "written", "decoded", "decode_failed"}
    \/ pc = "failed" /\ error \in {"build_dictionary", "struct.error", "compress"}

AfterRle == AfterDelta /\ pc # "rle"

\* The container buffer has been assembled.
AfterSerialize ==
    \/ pc \in {"compress", "written", "decoded", "decode_failed"}
    \/ pc = "failed" /\ error = "compress"

HasDelta ==
    /\ AfterDelta
    /\ \E i \in 1..Len(Cells(content, is_csv)) : IsDelta(Cells(content, is_csv)[i])

\* C1: for every input X, the encoder run on normalize(X) does not fail, the
\* decoder accepts its container, and the decoded rows or lines, cell by
\* cell, and the content kind are those of normalize(X).
C1_RoundTrip ==
    /\ ~EncoderFailed
    /\ pc # "decode_failed"
    /\ pc = "decoded" => decoded.content = Normalized /\ decoded.is_csv = is_csv

\* C2: for the rows [["a","1"],["a","1"],["b","2"]] dedupe_file drops the
\* second ["a","1"], the encoder produces a container without error, and
\* the decoder returns exactly [["a","1"],["b","2"]].
C2_Input == <<<<S_a, S_1>>, <<S_a, S_1>>, <<S_b, S_2>>>>

C2_Scenario ==
    (is_csv /\ input = C2_Input) =>
        /\ pc = "save_min_format" => content = <<<<S_a, S_1>>, <<S_b, S_2>>>> /\ num_removed = 1
        /\ ~EncoderFailed
        /\ pc # "decode_failed"
        /\ pc = "decoded" => decoded.content = <<<<S_a, S_1>>, <<S_b, S_2>>>>

\* C3: when apply_delta_encoding has replaced a cell of a numeric column by
\* Delta(offset), the encoder serializes the content and the decoder
\* returns the original values (10, 12, 11, 15 come back as 10, 12, 11, 15).
C3_DeltaRoundTrip ==
    HasDelta =>
        /\ ~EncoderFailed
        /\ pc # "decode_failed"
        /\ pc = "decoded" => decoded.content = Normalized

\* C4: apply_run_length_encoding turns every maximal run of k >= 2 equal
\* elements into one Repeat(k, value) and every other element into one
\* Literal, and the decoder's expansion of the serialized items gives back
\* the elements with their original cell values, in order.
RECURSIVE Expand(_)
Expand(items) ==
    IF items = <<>> THEN <<>>
    ELSE Replicate(Head(items).count, Head(items).value) \o Expand(Tail(items))

RleIsMaximal ==
    /\ \A i \in 1..Len(rle_data) :
          \/ rle_data[i].kind = "repeat" /\ rle_data[i].count >= 2
          \/ rle_data[i].kind = "data" /\ rle_data[i].count = 1
    /\ \A i \in 1..(Len(rle_data) - 1) : rle_data[i].value # rle_data[i + 1].value
    /\ Expand(rle_data) = content

C4_RleRoundTrip ==
    /\ AfterRle => RleIsMaximal
    /\ ~EncoderFailed
    /\ pc # "decode_failed"
    /\ pc = "decoded" => decoded.content = Original

\* Occurrences of the string s among the cells or lines of the content.
Occurrences(s) ==
    Cardinality({i \in 1..Len(Cells(content, is_csv)) :
                    ~IsDelta(Cells(content, is_csv)[i]) /\ Cells(content, is_csv)[i].s = s})

\* s occurs at least twice, or once with more than 6 bytes.
DictionaryString(s) ==
    s # <<>> /\ (Occurrences(s) >= 2 \/ (Occurrences(s) = 1 /\ Len(s) > 6))

ContentStrings ==
    {Cells(content, is_csv)[i].s : i \in {j \in 1..Len(Cells(content, is_csv)) : ~IsDelta(Cells(content, is_csv)[j])}}

WrittenAsDictRef(s) ==
    /\ s \in DOMAIN dictionary
    /\ write_cell(Str(s), dictionary) = <<255>> \o write_varint(N(dictionary[s]))

\* C5 as claimed: in the container, every non-empty string that occurs at
\* least twice, or once with more than 6 bytes, is written as DictRef
\* (0xFF and its dictionary index) and never with another tag.
C5_AlwaysDictRef ==
    AfterSerialize => \A s \in ContentStrings : DictionaryString(s) => WrittenAsDictRef(s)

\* C5 as amended: in the container, every such string that encode_number
\* does not encode as a number is written as DictRef (0xFF and its
\* dictionary index); one that encode_number encodes is written with its
\* Int or Float tag instead.
C5_DictRefUnlessNumber ==
    AfterSerialize =>
        \A s \in ContentStrings :
            DictionaryString(s) =>
                IF encode_number(s).tag = "none" THEN WrittenAsDictRef(s)
                ELSE write_cell(Str(s), dictionary)[1] \in {248, 249, 250, 251, 252}

\* A container holding a long string that occurs once, written as DictRef,
\* beside a number that occurs twice and a long number, neither a DictRef.
C5_Witness ==
    /\ pc = "written"
    /\ \E s \in ContentStrings : Occurrences(s) = 1 /\ Len(s) > 6 /\ WrittenAsDictRef(s)
    /\ \E s \in ContentStrings : Occurrences(s) >= 2 /\ encode_number(s).tag # "none"
    /\ \E s \in ContentStrings : Occurrences(s) = 1 /\ Len(s) > 6 /\ encode_number(s).tag # "none"

\* C6: the dictionary build_dictionary returns is injective, holds exactly
\* the non-empty strings that occur at least twice or once with more than 6
\* bytes, never the empty string, uses exactly the indices 0..n-1, and gives
\* a string with a strictly higher occurrence count the smaller index.
DictionaryBuilt == AfterSerialize \/ pc = "serialize"

C6_Dictionary ==
    DictionaryBuilt =>
        /\ \A s, t \in DOMAIN dictionary : dictionary[s] = dictionary[t] => s = t
        /\ DOMAIN dictionary = {s \in ContentStrings : DictionaryString(s)}
        /\ <<>> \notin DOMAIN dictionary
        /\ {dictionary[s] : s \in DOMAIN dictionary} = 0..(Cardinality(DOMAIN dictionary) - 1)
        /\ \A s, t \in DOMAIN dictionary : Occurrences(s) > Occurrences(t) => dictionary[s] < dictionary[t]

\* A dictionary of at least two strings with different occurrence counts,
\* the rarer one seen first, beside a string that stays out of it.
C6_Witness ==
    /\ pc = "serialize"
    /\ Cardinality(DOMAIN dictionary) >= 2
    /\ \E s, t \in DOMAIN dictionary : Occurrences(s) > Occurrences(t)
    /\ \E s \in ContentStrings : s # <<>> /\ s \notin DOMAIN dictionary
    /\ ~is_csv /\ content[1].s \in DOMAIN dictionary /\ dictionary[content[1].s] > 0

\* C7: for 0 <= n < 2^35, read_varint on the bytes of write_varint(n)
\* returns n and stops right after them; on a stream whose first 5 bytes
\* carry the continuation flag it raises having read at most 5 bytes.
C7_Varint ==
    /\ (pc = "varint_done" /\ v_value.hi >= 0 /\ v_value.hi < 128) =>
          /\ v_result.ok
          /\ v_result.value = v_value
          /\ v_result.pos = Len(write_varint(v_value)) + 1
          /\ SubSeq(v_stream, 1, v_result.pos - 1) = write_varint(v_value)
    /\ (pc = "stream_done" /\ \A i \in 1..5 : v_stream[i] >= 128) =>
          /\ ~v_result.ok
          /\ v_result.pos - 1 <= 5

\* The largest value below 2^35 has been written as 5 bytes, followed by
\* another byte, and read back.
C7_Witness ==
    /\ pc = "varint_done"
    /\ v_value = Big(127, Limb - 1)
    /\ Len(v_stream) = 6
    /\ v_result.ok

\* C8: decompress_min rejects every buffer whose magic is not MINFMT, whose
\* version byte is not 1 or 2, or whose content-kind byte is not 0 or 1.
C8_RejectsBadHeader ==
    (/\ craft.family = "fields"
     /\ pc \in {"decoded", "decode_failed"}
     /\ (~craft.magic_ok \/ craft.version \notin {1, 2} \/ craft.kind \notin {0, 1}))
    => ~decoded.ok

\* The cell tags defined for a version.
DefinedTags(version) ==
    IF version = 1 THEN {0, 1, 255} ELSE {0, 1, 247, 248, 249, 250, 251, 252, 255}

\* C9: in both versions decompress_min fails when an item's marker is not
\* 0xFE or 0xFD, or a cell's tag is not one defined for the version.
C9_RejectsUnknownBytes ==
    (/\ craft.family = "fields"
     /\ pc \in {"decoded", "decode_failed"}
     /\ craft.magic_ok /\ craft.version \in {1, 2}
     /\ \/ craft.version = 2 /\ craft.marker \notin {253, 254}
        \/ craft.tag \notin DefinedTags(craft.version))
    => ~decoded.ok

\* C10: a version-1 container decodes to the rows or lines it represents:
\* an Empty cell as the empty string, a RawString cell as its bytes, a
\* DictRef cell as its dictionary entry.
C10_Version1Decodes ==
    (craft.family = "v1" /\ pc \in {"decoded", "decode_failed"}) =>
        /\ decoded.ok
        /\ decoded.content = craft.expect
        /\ decoded.is_csv = (craft.kind = 1)

\* The fields of a serialized cell: its tag, then a length and the bytes
\* (RawString), or the payload of the tag.
CellFields(cell) ==
    LET w == write_cell(cell, dictionary)
    IN IF Head(w) = 0
       THEN <<<<0>>, write_varint(N(Len(Utf8Encode(cell.s)))), Utf8Encode(cell.s)>>
       ELSE IF Len(w) = 1 THEN <<w>> ELSE <<<<Head(w)>>, Tail(w)>>

RowFields(row) ==
    IF is_csv
    THEN <<write_varint(N(Len(row)))>> \o Flatten([c \in 1..Len(row) |-> CellFields(row[c])])
    ELSE CellFields(row)

ItemFields(item) ==
    (IF item.kind = "repeat" THEN <<<<254>>, write_varint(N(item.count))>> ELSE <<<<253>>>>)
    \o RowFields(item.value)

\* The fields of the container in buffer, in the order of the layout.
ContainerFields ==
    <<Magic, <<2>>, <<IF is_csv THEN 1 ELSE 0>>>>
    \o <<write_varint(N(Cardinality(numeric_cols)))>>
    \o [i \in 1..Cardinality(numeric_cols) |-> write_varint(N(SortedSeq(numeric_cols)[i]))]
    \o <<write_varint(N(Cardinality(DOMAIN dictionary)))>>
    \o Flatten([i \in 1..Cardinality(DOMAIN dictionary) |->
                  <<write_varint(N(Len(Utf8Encode(ReverseDict(dictionary, i - 1))))),
                    Utf8Encode(ReverseDict(dictionary, i - 1))>>])
    \o <<write_varint(N(Len(rle_data)))>>
    \o Flatten([i \in 1..Len(rle_data) |-> ItemFields(rle_data[i])])

\* The offsets at which a field of the container ends.
FieldEnds == {Len(Flatten(SubSeq(ContainerFields, 1, j))) : j \in 0..Len(ContainerFields)}

\* C11: for every valid container B and every proper prefix P of B that
\* ends in the middle of a field, decoding P fails with an error; it never
\* returns content (with a shortened value).
C11_TruncationFails ==
    (/\ craft.family = "truncated"
     /\ pc \in {"decoded", "decode_failed"}
     /\ Len(out_file) \notin FieldEnds)
    => ~decoded.ok

TrimCell(s) ==
    LET ns == {i \in 1..Len(s) : s[i] # " "}
    IN IF ns = {} THEN <<>>
       ELSE SubSeq(s, CHOOSE i \in ns : \A j \in ns : i <= j, CHOOSE i \in ns : \A j \in ns : i >= j)

\* A row with every cell trimmed, up to its last cell that is not empty.
TrimRow(raw) ==
    LET ne == {i \in 1..Len(raw) : TrimCell(raw[i]) # <<>>}
    IN [i \in 1..(IF ne = {} THEN 0 ELSE CHOOSE i \in ne : \A j \in ne : i >= j) |-> TrimCell(raw[i])]

Trimmed(i) == IF is_csv THEN TrimRow(input[i]) ELSE TrimCell(input[i])

\* The input positions that survive: not blank, and not seen before.
Survivors == {i \in 1..Len(input) : Trimmed(i) # <<>> /\ \A j \in 1..(i - 1) : Trimmed(j) # Trimmed(i)}

\* The k-th surviving position.
Survivor(k) == CHOOSE i \in Survivors : Cardinality({j \in Survivors : j <= i}) = k

\* The columns in which no surviving row has a cell that is not empty.
PrunedCols ==
    {c \in 1..(MaxCells + 1) :
        \A i \in Survivors : c > Len(Trimmed(i)) \/ Trimmed(i)[c] = <<>>}

\* The columns of the surviving row i that stay.
StayingCols(i) == {c \in 1..Len(Trimmed(i)) : c \notin PrunedCols}

\* C13: the result of dedupe_file followed by optimize_csv is the distinct
\* trimmed rows in first-seen order; no two rows are equal, no row is empty
\* or all empty cells, no row ends in an empty cell, no column is empty or
\* absent in every row, and the removed count is the number of input rows
\* less the number of surviving rows; for lines the same without columns.
C13_NormalForm ==
    pc = "delta" =>
        /\ Len(content) = Cardinality(Survivors)
        /\ num_removed = Len(input) - Len(content)
        /\ \A k \in 1..Len(content) :
              IF is_csv
              THEN /\ Len(content[k]) = Cardinality(StayingCols(Survivor(k)))
                   /\ \A c \in StayingCols(Survivor(k)) :
                         content[k][Cardinality({d \in StayingCols(Survivor(k)) : d <= c})]
                            = Trimmed(Survivor(k))[c]
              ELSE content[k] = Trimmed(Survivor(k))
        /\ \A k, l \in 1..Len(content) : content[k] = content[l] => k = l
        /\ \A k \in 1..Len(content) : content[k] # <<>>
        /\ is_csv =>
              /\ \A k \in 1..Len(content) :
                    /\ \E c \in 1..Len(content[k]) : content[k][c] # <<>>
                    /\ content[k][Len(content[k])] # <<>>
              /\ \A c \in 1..MaxLen(content) :
                    \E k \in 1..Len(content) : c <= Len(content[k]) /\ content[k][c] # <<>>

\* Rows of which one was blank or a duplicate and the others lost a column
\* that was empty in all of them.
C13_Witness ==
    /\ pc = "delta"
    /\ is_csv
    /\ num_removed >= 1
    /\ Len(content) >= 1
    /\ \E k \in 1..Len(content) : Len(content[k]) < Len(Trimmed(Survivor(k)))

\* The bytes of the container after the content-kind byte (offset 8 on).
AfterKind == SubSeq(buffer, 9, Len(buffer))

\* The count of numeric columns and their indices in ascending order.
NumericSection ==
    write_varint(N(Cardinality(numeric_cols)))
    \o Flatten([i \in 1..Cardinality(numeric_cols) |-> write_varint(N(SortedSeq(numeric_cols)[i]))])

\* The dictionary section, the item count and the items.
DictionaryAndItems ==
    WriteDictionary(dictionary)
    \o write_varint(N(Len(rle_data)))
    \o Flatten([i \in 1..Len(rle_data) |-> WriteItem(rle_data[i], dictionary, is_csv)])

\* The dictionary entries in index order, as the decoder holds them.
DictionaryEntries == [i \in 1..Cardinality(DOMAIN dictionary) |-> ReverseDict(dictionary, i - 1)]

\* The decoder, having read up to offset 8 + skip, finds the numeric
\* columns and then the dictionary of the container.
DecoderReads(skip) ==
    /\ ReadNumericSection(buffer, 2, is_csv).ok
    /\ ReadNumericSection(buffer, 2, is_csv).val = numeric_cols
    /\ ReadNumericSection(buffer, 2, is_csv).pos = 9 + skip
    /\ ReadDictionarySection(buffer, 9 + skip).ok
    /\ ReadDictionarySection(buffer, 9 + skip).val = DictionaryEntries

\* C14 as claimed: the NumericColumns section is present only in row-mode
\* containers; in a line-mode container the dictionary size directly
\* follows the content-kind byte, at offset 8, in what save_min_format
\* writes and in what decompress_min reads.
C14_SectionOnlyInRowMode ==
    AfterSerialize =>
        /\ SubSeq(buffer, 1, 8) = Magic \o <<2, IF is_csv THEN 1 ELSE 0>>
        /\ is_csv => AfterKind = NumericSection \o DictionaryAndItems
                     /\ DecoderReads(Len(NumericSection))
        /\ ~is_csv => AfterKind = DictionaryAndItems /\ DecoderReads(0)

\* C14 as amended: the list of indices is present only in row-mode
\* containers; a line-mode container holds the count alone, one varint 0 at
\* offset 8, and its dictionary size follows at offset 9, in what
\* save_min_format writes and in what decompress_min reads.
C14_ZeroCountInLineMode ==
    AfterSerialize =>
        /\ SubSeq(buffer, 1, 8) = Magic \o <<2, IF is_csv THEN 1 ELSE 0>>
        /\ is_csv => AfterKind = NumericSection \o DictionaryAndItems
                     /\ DecoderReads(Len(NumericSection))
        /\ ~is_csv => AfterKind = <<0>> \o DictionaryAndItems /\ DecoderReads(1)

\* A line-mode container with a dictionary of two entries: byte 8 is the
\* zero count, byte 9 the dictionary size.
C14_Witness ==
    /\ pc = "written"
    /\ ~is_csv
    /\ Cardinality(DOMAIN dictionary) = 2
    /\ out_file[9] = 0
    /\ out_file[10] = 2

\* The rows sampled by the detection: the first min(100, number of rows).
Sampled == 1..(IF Len(Original) < 100 THEN Len(Original) ELSE 100)

\* The sampled cells of column c that are numbers.
NumericCells(c) == {r \in Sampled : c < Len(Original[r]) /\ is_numeric(Original[r][c + 1])}

\* The sampled cells of column c that are there and are not numbers.
OtherCells(c) == {r \in Sampled : c < Len(Original[r]) /\ ~is_numeric(Original[r][c + 1])}

EightyPercent(c) == 10 * Cardinality(NumericCells(c)) >= 8 * Cardinality(Sampled)

\* C15 as claimed: a column is put into NumericColumns only if at least 80%
\* of its sampled cells are numeric and no sampled cell of the column fails
\* to parse as a number.
C15_NoParseFailure ==
    (is_csv /\ AfterDelta) =>
        \A c \in numeric_cols : EightyPercent(c) /\ OtherCells(c) = {}

\* C15 as amended: a column is put into NumericColumns exactly when the
\* numeric cells of the column make up at least 80% of the sampled rows; a
\* sampled cell that does not parse only fails to count.
C15_EightyPercentOnly ==
    AfterDelta =>
        IF is_csv
        THEN /\ \A c \in numeric_cols : EightyPercent(c)
             /\ \A c \in 0..(MaxLen(Original) - 1) : EightyPercent(c) => c \in numeric_cols
        ELSE numeric_cols = {}

\* Five sampled rows whose only column holds four numbers and one cell that
\* does not parse: the column is in NumericColumns.
C15_Witness ==
    /\ pc = "rle"
    /\ is_csv
    /\ Cardinality(Sampled) = 5
    /\ 0 \in numeric_cols
    /\ Cardinality(NumericCells(0)) = 4
    /\ Cardinality(OtherCells(0)) = 1

\* s is the text of an integer: an optional sign and digits, no point.
IntegerLiteral(s) == IntSyntax(s) /\ "." \notin Range(s)

\* The decimal digits of |int(s)|, without leading zeros.
LiteralDigits(s) ==
    LET b == Unsigned(Strip(s))
        nz == {k \in 1..Len(b) : b[k] # "0"}
    IN IF nz = {} THEN <<>> ELSE SubSeq(b, CHOOSE k \in nz : \A j \in nz : k <= j, Len(b))

\* -limit <= int(s) < limit, for a limit given by its decimal digits.
Within(s, limit) ==
    \/ Len(LiteralDigits(s)) < Len(limit)
    \/ /\ Len(LiteralDigits(s)) = Len(limit)
       /\ \E k \in 1..Len(limit) :
             /\ DigitVal(LiteralDigits(s)[k]) < limit[k]
             /\ \A j \in 1..(k - 1) : DigitVal(LiteralDigits(s)[j]) = limit[j]
    \/ /\ IsNegative(Strip(s))
       /\ LiteralDigits(s) = [k \in 1..Len(limit) |-> Chr(48 + limit[k])]

\* The width in bytes of the smallest signed integer type that holds
\* int(s); 0 when the 64-bit type does not.
SmallestWidth(s) ==
    IF Within(s, <<1, 2, 8>>) THEN 1
    ELSE IF Within(s, <<3, 2, 7, 6, 8>>) THEN 2
    ELSE IF Within(s, <<2, 1, 4, 7, 4, 8, 3, 6, 4, 8>>) THEN 4
    ELSE IF Within(s, <<9, 2, 2, 3, 3, 7, 2, 0, 3, 6, 8, 5, 4, 7, 7, 5, 8, 0, 8>>) THEN 8
    ELSE 0

\* str(int(s)).
CanonicalText(s) ==
    IF LiteralDigits(s) = <<>> THEN <<"0">>
    ELSE (IF IsNegative(Strip(s)) THEN <<"-">> ELSE <<>>) \o LiteralDigits(s)

\* C16: for a cell whose text is an integer literal _write_cell emits the
\* smallest signed big-endian Int tag (int8, int16, int32, int64) whose
\* range holds the value; a value outside the signed 64-bit range is
\* written as DictRef or RawString instead, and the encode still succeeds.
C16_IntegerCells ==
    /\ pc = "failed" => error # "struct.error"
    /\ AfterSerialize =>
          \A s \in ContentStrings :
              (s # <<>> /\ IntegerLiteral(s)) =>
                  LET w == write_cell(Str(s), dictionary)
                      width == SmallestWidth(s)
                  IN IF width = 0 THEN w[1] = (IF s \in DOMAIN dictionary THEN 255 ELSE 0)
                     ELSE /\ w[1] = (CASE width = 1 -> 248 [] width = 2 -> 249
                                       [] width = 4 -> 250 [] width = 8 -> 251)
                          /\ Len(w) = 1 + width
                          /\ ReadInt(w, 2, width).val = CanonicalText(s)

\* The file holds the container of the items in rle_data.
ContainerWritten ==
    /\ pc \in {"written", "decoded", "decode_failed"}
    /\ out_file = WriteContainer(rle_data, dictionary, numeric_cols, is_csv)

====
